---- MODULE Spec2Model ----
(***************************************************************************)
(* A model of awsbill2graphite.py: the billing-CSV to Graphite pipeline.   *)
(*                                                                         *)
(* Text is modelled as a sequence of one-character strings, so that        *)
(* split, startswith, replace, join and number formatting do what the      *)
(* Python code does.  A float amount is an integer number of millionths;   *)
(* a timestamp is an integer number of Unix seconds.  The text of the      *)
(* identity/TimeInterval and lineItem/BlendedCost columns is represented   *)
(* by what arrow.get and float make of it: <<start, end>> or <<amount>>    *)
(* when it parses, <<>> when it does not.                                  *)
(***************************************************************************)
EXTENDS Integers, Sequences, FiniteSets, TLC

VARIABLES
    prefix,       \* os.getenv("AWSBILL_METRIC_PREFIX"): Unset, or a text
    report_path,  \* scheme of AWSBILL_REPORT_PATH
    output_url,   \* scheme of AWSBILL_GRAPHITE_URL
    pc,           \* position of the run
    remaining,    \* data rows the csv reader has not yet yielded
    timeseries,   \* MetricLedger._timeseries: name -> (timestamp -> value)
    out,          \* what has been written to output_file, line by line
    processed,    \* history: the rows handed to MetricLedger.process
    last,         \* history: the raw fields of the row read most recently
    outputCalls,  \* history: number of calls of MetricLedger.output
    usage,        \* classification harness: a raw lineItem/UsageType
    category,     \* classification harness: result of Row.usage_type
    itype         \* classification harness: result of Row.instance_type

vars == <<prefix, report_path, output_url, pc, remaining, timeseries, out,
          processed, last, outputCalls, usage, category, itype>>

(***************************************************************************)
(* Bounds                                                                  *)
(***************************************************************************)
MaxRows == 2
MaxFrags == 3

(***************************************************************************)
(* Python values                                                           *)
(***************************************************************************)
\* None, and the outcome "an exception was raised", are one-element
\* sequences that no text of single characters can equal.
None == <<"<None>">>
Raised == <<"<raised>">>

LowerCase == {"a","b","c","d","e","f","g","h","i","j","k","l","m",
              "n","o","p","q","r","s","t","u","v","w","x","y","z"}
UpperCase == {"A","B","C","D","E","F","G","H","I","J","K","L","M",
              "N","O","P","Q","R","S","T","U","V","W","X","Y","Z"}
DigitChars == {"0","1","2","3","4","5","6","7","8","9"}

\* str.isupper: at least one cased character and no lowercase one
isupper(s) ==
    /\ \E i \in 1..Len(s) : s[i] \in UpperCase
    /\ \A i \in 1..Len(s) : s[i] \notin LowerCase

isdigit(ch) == ch \in DigitChars

startswith(s, p) == Len(s) >= Len(p) /\ SubSeq(s, 1, Len(p)) = p

\* the Python test  p in s  on strings
contains(s, p) ==
    \E i \in 1..(Len(s) - Len(p) + 1) : SubSeq(s, i, i + Len(p) - 1) = p

FirstIndex(s, ch) ==
    CHOOSE i \in 1..Len(s) : s[i] = ch /\ \A j \in 1..(i-1) : s[j] # ch

\* s.split(ch)
RECURSIVE split(_, _)
split(s, ch) ==
    IF \E i \in 1..Len(s) : s[i] = ch
    THEN LET i == FirstIndex(s, ch)
         IN <<SubSeq(s, 1, i-1)>> \o split(SubSeq(s, i+1, Len(s)), ch)
    ELSE <<s>>

\* s.split(ch, 1)
split1(s, ch) ==
    IF \E i \in 1..Len(s) : s[i] = ch
    THEN LET i == FirstIndex(s, ch)
         IN <<SubSeq(s, 1, i-1), SubSeq(s, i+1, Len(s))>>
    ELSE <<s>>

\* s.replace(a, b) for single characters
replace(s, a, b) == [i \in 1..Len(s) |-> IF s[i] = a THEN b ELSE s[i]]

\* sep.join(pieces); joining an item that is not a string raises TypeError
RECURSIVE join(_, _)
join(sep, pieces) ==
    IF \E i \in 1..Len(pieces) : pieces[i] = None THEN Raised
    ELSE IF Len(pieces) = 0 THEN <<>>
    ELSE IF Len(pieces) = 1 THEN pieces[1]
    ELSE pieces[1] \o sep \o join(sep, Tail(pieces))

\* decimal digits of a natural number
RECURSIVE Digits(_)
Digits(n) ==
    LET d == <<"0","1","2","3","4","5","6","7","8","9">>[(n % 10) + 1]
    IN IF n < 10 THEN <<d>> ELSE Digits(n \div 10) \o <<d>>

RECURSIVE ZeroFill(_, _)
ZeroFill(s, width) == IF Len(s) >= width THEN s ELSE ZeroFill(<<"0">> \o s, width)

(***************************************************************************)
(* Program constants                                                       *)
(***************************************************************************)
REGION_NAMES ==
    [k \in {"US East (N. Virginia)", "US West (N. California)",
            "US West (Oregon)", "EU (Ireland)", "EU (Frankfurt)",
            "Asia Pacific (Tokyo)", "Asia Pacific (Seoul)",
            "Asia Pacific (Singapore)", "Asia Pacific (Sydney)",
            "South America (Sao Paulo)"} |->
       CASE k = "US East (N. Virginia)" -> <<"u", "s", "-", "e", "a", "s", "t", "-", "1">>
         [] k = "US West (N. California)" -> <<"u", "s", "-", "w", "e", "s", "t", "-", "1">>
         [] k = "US West (Oregon)" -> <<"u", "s", "-", "w", "e", "s", "t", "-", "2">>
         [] k = "EU (Ireland)" -> <<"e", "u", "-", "w", "e", "s", "t", "-", "1">>
         [] k = "EU (Frankfurt)" -> <<"e", "u", "-", "c", "e", "n", "t", "r", "a", "l", "-", "1">>
         [] k = "Asia Pacific (Tokyo)" -> <<"a", "p", "-", "n", "o", "r", "t", "h", "e", "a", "s", "t", "-", "1">>
         [] k = "Asia Pacific (Seoul)" -> <<"a", "p", "-", "n", "o", "r", "t", "h", "e", "a", "s", "t", "-", "2">>
         [] k = "Asia Pacific (Singapore)" -> <<"a", "p", "-", "s", "o", "u", "t", "h", "e", "a", "s", "t", "-", "1">>
         [] k = "Asia Pacific (Sydney)" -> <<"a", "p", "-", "s", "o", "u", "t", "h", "e", "a", "s", "t", "-", "2">>
         [] k = "South America (Sao Paulo)" -> <<"s", "a", "-", "e", "a", "s", "t", "-", "1">>]

noregion == <<"n", "o", "r", "e", "g", "i", "o", "n">>
BoxUsage == <<"B", "o", "x", "U", "s", "a", "g", "e", ":">>
ec2_instance == <<"e", "c", "2", "-", "i", "n", "s", "t", "a", "n", "c", "e">>
total_cost == <<"a", "l", "l", "-", "r", "e", "g", "i", "o", "n", "s", ".", "a", "l", "l", "-", "t", "y", "p", "e", "s", ".", "t", "o", "t", "a", "l", "-", "c", "o", "s", "t">>
RegionPrefixes == {<<"U", "S">>, <<"E", "U">>, <<"A", "P">>, <<"S", "A">>}

\* the columns of the header row, in file order
col_names == <<"identity/TimeInterval", "lineItem/LineItemType",
               "lineItem/UsageType", "lineItem/BlendedCost",
               "product/location">>

\* digits after the point that the presentation type "f" prints when the
\* format spec gives no precision, and the minimum field width of "04f"
FloatPrecision == 6
FieldWidth == 4
\* an amount is held as an integer number of units of 10^-FloatPrecision
Unit == 10 ^ FloatPrecision
\* the only interval length, in seconds, that generate_metrics lets through
HourSeconds == 3600

Unset == None

(***************************************************************************)
(* Row                                                                     *)
(***************************************************************************)
Min(a, b) == IF a < b THEN a ELSE b

Put(f, k, v) == [x \in (DOMAIN f) \cup {k} |-> IF x = k THEN v ELSE f[x]]

\* Row.__init__: dict(zip(col_names, row_list)); zip stops at the shorter
Row(names, row_list) ==
    LET n == Min(Len(names), Len(row_list))
    IN [k \in {names[i] : i \in 1..n} |->
           row_list[CHOOSE i \in 1..n : names[i] = k]]

\* Row.region; a missing column raises KeyError
region(content) ==
    IF "product/location" \notin DOMAIN content THEN Raised
    ELSE IF content["product/location"] \in DOMAIN REGION_NAMES
         THEN REGION_NAMES[content["product/location"]]
         ELSE noregion

\* Row.interval raises on a missing column and on text that does not parse
interval_raises(content) ==
    \/ "identity/TimeInterval" \notin DOMAIN content
    \/ Len(content["identity/TimeInterval"]) # 2

interval(content) ==
    content["identity/TimeInterval"][2] - content["identity/TimeInterval"][1]

end_time(content) == content["identity/TimeInterval"][2]

\* Row.usage_type
usage_type(content) ==
    IF "lineItem/UsageType" \notin DOMAIN content THEN Raised
    ELSE
    LET splut == split(content["lineItem/UsageType"], "-")
        first == splut[1]
        region_code ==
            /\ Len(first) = 4
            /\ SubSeq(first, 1, 2) \in RegionPrefixes
            /\ isupper(first)
            /\ isdigit(first[4])
        rest == IF region_code THEN Tail(splut) ELSE splut
    IN IF Len(rest) = 0 THEN Raised   \* splut[0] on an empty list
       ELSE IF startswith(rest[1], BoxUsage) THEN ec2_instance
       ELSE None

\* instance_type without the replacement of "." by "-"
instance_type_nodash(content) ==
    IF "lineItem/UsageType" \notin DOMAIN content THEN Raised
    ELSE IF ~contains(content["lineItem/UsageType"], BoxUsage) THEN None
    ELSE LET splut == split1(content["lineItem/UsageType"], ":")
         IN IF Len(splut) < 2 THEN None
            ELSE splut[2]

\* Row.instance_type
instance_type(content) ==
    IF "lineItem/UsageType" \notin DOMAIN content THEN Raised
    ELSE IF ~contains(content["lineItem/UsageType"], BoxUsage) THEN None
    ELSE LET splut == split1(content["lineItem/UsageType"], ":")
         IN IF Len(splut) < 2 THEN None
            ELSE replace(splut[2], ".", "-")

\* Row.tags: always the empty dict
tags(content) == {}

\* Row.amount raises on a missing column and on text that is not a number
amount_raises(content) ==
    \/ "lineItem/BlendedCost" \notin DOMAIN content
    \/ Len(content["lineItem/BlendedCost"]) # 1

amount(content) == content["lineItem/BlendedCost"][1]

(***************************************************************************)
(* TimeseriesPattern and its two implementations                           *)
(***************************************************************************)
\* the list that generate_metrics hands to MetricLedger
patterns == <<"ByInstanceType", "AllCosts">>

\* match with an AllCosts that only takes the rows of a known usage type
match_known_only(pat, content) ==
    IF usage_type(content) = Raised THEN "raise"
    ELSE IF usage_type(content) = ec2_instance
            /\ Cardinality(tags(content)) = 0
         THEN "yes" ELSE "no"

\* match: "yes", "no", or "raise" when an accessor raises
match(pat, content) ==
    IF pat = "ByInstanceType"
    THEN IF usage_type(content) = Raised THEN "raise"
         ELSE IF usage_type(content) = ec2_instance
                 /\ Cardinality(tags(content)) = 0
              THEN "yes" ELSE "no"
    ELSE "yes"

metric_name(pat, content) ==
    IF pat = "ByInstanceType"
    THEN IF region(content) = Raised THEN Raised
         ELSE join(<<".">>, <<region(content), usage_type(content),
                              instance_type(content)>>)
    ELSE total_cost

(***************************************************************************)
(* MetricFormatter                                                         *)
(***************************************************************************)
\* MetricFormatter.__init__: the prefix becomes the one initial piece unless
\* it is the empty string; None (variable unset) is not the empty string
initial_pieces(pfx) == IF pfx # <<>> THEN <<pfx>> ELSE <<>>

\* "{:04f}".format(value) for a value >= 0
format_float(value) ==
    ZeroFill(Digits(value \div Unit) \o <<".">>
               \o ZeroFill(Digits(value % Unit), FloatPrecision),
             FieldWidth)

\* MetricFormatter.format: the line, or Raised
format(pieces0, ts_id, timestamp, value) ==
    LET name == join(<<".">>, Append(pieces0, ts_id))
    IN IF name = Raised THEN Raised
       ELSE name \o <<" ">> \o format_float(value) \o <<" ">>
                 \o Digits(timestamp) \o <<"\n">>

(***************************************************************************)
(* MetricLedger                                                            *)
(***************************************************************************)
\* MetricLedger.process from pattern number i on.  The statement
\*   self._timeseries[name][end] += amount
\* reads both defaultdicts, creating the missing entries, before it calls
\* row.amount().
RECURSIVE process_from(_, _, _)
process_from(i, table, content) ==
    IF i > Len(patterns) THEN [table |-> table, raised |-> FALSE]
    ELSE
    LET pat == patterns[i]
        m == match(pat, content)
    IN IF m = "raise" THEN [table |-> table, raised |-> TRUE]
       ELSE IF m = "no" THEN process_from(i + 1, table, content)
       ELSE
       LET name == metric_name(pat, content)
       IN IF name = Raised THEN [table |-> table, raised |-> TRUE]
          ELSE
          LET inner0 == IF name \in DOMAIN table THEN table[name] ELSE <<>>
              end == end_time(content)
              inner1 == IF end \in DOMAIN inner0 THEN inner0
                        ELSE Put(inner0, end, 0)
              created == Put(table, name, inner1)
          IN IF interval_raises(content)
             THEN [table |-> Put(table, name, inner0), raised |-> TRUE]
             ELSE IF amount_raises(content)
             THEN [table |-> created, raised |-> TRUE]
             ELSE process_from(i + 1,
                     Put(table, name,
                         Put(inner1, end, inner1[end] + amount(content))),
                     content)

process(table, content) == process_from(1, table, content)

\* the orders in which iteritems() may yield the keys of a dict
Orders(S) ==
    {f \in [1..Cardinality(S) -> S] : \A x \in S : \E i \in DOMAIN f : f[i] = x}

\* the lines MetricLedger.output writes when it walks the metric names in
\* the order names and the timestamps of each name in the order stamps[name]
RECURSIVE lines_of(_, _, _, _)
lines_of(table, names, stamps, pieces0) ==
    IF Len(names) = 0 THEN <<>>
    ELSE LET ts_id == names[1]
         IN [k \in 1..Len(stamps[ts_id]) |->
                [ts_id |-> ts_id,
                 timestamp |-> stamps[ts_id][k],
                 value |-> table[ts_id][stamps[ts_id][k]],
                 text |-> format(pieces0, ts_id, stamps[ts_id][k],
                                 table[ts_id][stamps[ts_id][k]])]]
              \o lines_of(table, Tail(names), stamps, pieces0)

(***************************************************************************)
(* Inputs                                                                  *)
(***************************************************************************)
Prefixes == {Unset, <<>>, <<"a", "w", "s">>}
ReportPaths == {"file", "s3", "other"}
OutputUrls == {"stdout", "http", "other"}

\* parsed identity/TimeInterval: two hourly intervals with different end
\* times, a two-hour interval, and text that does not parse
TimeIntervals == {<<0, 3600>>, <<3600, 7200>>, <<0, 7200>>, <<>>}
LineItemTypes == {"Usage", "Tax"}
UsageTypes == {<<"B", "o", "x", "U", "s", "a", "g", "e", ":", "m", "1", ".", "s", "m", "a", "l", "l">>, <<"A", "P", "N", "1", "-", "B", "o", "x", "U", "s", "a", "g", "e", ":", "c", "3", ".", "2", "x", "l", "a", "r", "g", "e">>,
               <<"R", "e", "q", "u", "e", "s", "t", "s", "-", "R", "B", "P">>, <<"U", "S", "W", "2">>}
\* parsed lineItem/BlendedCost: 0.85, and text that is not a number
BlendedCosts == {<<850000>>, <<>>}
Locations == {"US West (Oregon)", "Atlantis"}

\* data rows: every combination of the values above, cut short after any
\* number of values or carrying one value more than the header has columns
Rows ==
    {SubSeq(<<ti, lit, ut, cost, loc, "extra">>, 1, n) :
        ti \in TimeIntervals, lit \in LineItemTypes, ut \in UsageTypes,
        cost \in BlendedCosts, loc \in Locations,
        n \in 0..(Len(col_names) + 1)}

\* pieces from which the usage types of the classification harness are built
Fragments == {<<"U", "S", "E", "1", "-">>, <<"U", "S", "W", "2", "-">>, <<"A", "P", "N", "1", "-">>, <<"U", "S", "W", "2">>, <<"u", "s", "w", "2", "-">>,
              <<"U", "S", ":", "1", "-">>, <<"U", "S", "W", "X", "-">>, <<"B", "o", "x", "U", "s", "a", "g", "e", ":", "m", "1", ".", "s", "m", "a", "l", "l">>,
              <<"B", "o", "x", "U", "s", "a", "g", "e", ":", "c", "3", ".", "2", "x", "l", "a", "r", "g", "e">>, <<"A", "W", "S", "-", "I", "n", "-", "B", "y", "t", "e", "s">>}

RECURSIVE Concats(_)
Concats(n) ==
    IF n = 0 THEN {<<>>}
    ELSE LET shorter == Concats(n - 1)
         IN shorter \cup {s \o f : s \in shorter, f \in Fragments}

UsageStrings == Concats(MaxFrags)

(***************************************************************************)
(* generate_metrics and __main__                                           *)
(***************************************************************************)
Pending == <<"<pending>">>

\* what the history variable last records of a row as read from the file
Seen(row_list) ==
    [len |-> Len(row_list),
     lit |-> IF Len(row_list) >= 2 THEN row_list[2] ELSE "<missing>",
     interval |-> IF Len(row_list) < 1 THEN "missing"
                  ELSE IF Len(row_list[1]) # 2 THEN "unparseable"
                  ELSE IF row_list[1][2] - row_list[1][1] = 3600
                       THEN "hourly" ELSE "other",
     cost |-> IF Len(row_list) < 4 THEN "missing"
              ELSE IF Len(row_list[4]) # 1 THEN "unparseable" ELSE "number"]

NoRow == [len |-> 0, lit |-> "<none>", interval |-> "none", cost |-> "none"]

Init ==
    /\ prefix \in Prefixes
    /\ report_path \in ReportPaths
    /\ output_url \in OutputUrls
    /\ pc = "Init"
    /\ remaining \in 0..MaxRows
    /\ timeseries = <<>>
    /\ out = <<>>
    /\ processed = <<>>
    /\ last = NoRow
    /\ outputCalls = 0
    /\ usage = <<>>
    /\ category = Pending
    /\ itype = Pending

\* open_csv, open_output, then the start of generate_metrics: the header is
\* read and the ledger is built
Setup ==
    /\ pc = "Init"
    /\ pc' = IF report_path = "file" /\ output_url = "stdout"
             THEN "Reading" ELSE "AbortedSetup"
    /\ UNCHANGED <<prefix, report_path, output_url, remaining, timeseries,
                   out, processed, last, outputCalls, usage, category, itype>>

\* "Skip entries of the wrong type"
wrong_type(content) == content["lineItem/LineItemType"] # "Usage"

\* a filter that only skips the intervals shorter than an hour
non_hourly_shorter(content) == interval(content) < HourSeconds

\* "Skip non-hourly entries"
non_hourly(content) == interval(content) # HourSeconds

\* one turn of the loop over the reader
ReadRow(row_list) ==
    /\ pc = "Reading"
    /\ remaining > 0
    /\ remaining' = remaining - 1
    /\ last' = Seen(row_list)
    /\ LET content == Row(col_names, row_list)
       IN IF "lineItem/LineItemType" \notin DOMAIN content
          THEN /\ pc' = "AbortedRow"
               /\ UNCHANGED <<timeseries, processed>>
          ELSE IF wrong_type(content)
          THEN UNCHANGED <<pc, timeseries, processed>>
          ELSE IF interval_raises(content)
          THEN /\ pc' = "AbortedRow"
               /\ UNCHANGED <<timeseries, processed>>
          ELSE IF non_hourly(content)
          THEN UNCHANGED <<pc, timeseries, processed>>
          ELSE LET r == process(timeseries, content)
               IN /\ processed' = Append(processed, content)
                  /\ timeseries' = r.table
                  /\ pc' = IF r.raised THEN "AbortedRow" ELSE "Reading"
    /\ UNCHANGED <<prefix, report_path, output_url, out, outputCalls,
                   usage, category, itype>>

\* a loop that may be left while the reader still has rows
input_exhausted_early == TRUE

\* the for loop over the reader ends when the reader has no row left
input_exhausted == remaining = 0

\* ledger.output(output_file), reached when the loop has ended
Output ==
    /\ pc = "Reading"
    /\ input_exhausted
    /\ outputCalls' = outputCalls + 1
    /\ \E names \in Orders(DOMAIN timeseries) :
       \E stamps \in [DOMAIN timeseries ->
                        UNION {Orders(DOMAIN timeseries[n]) :
                                 n \in DOMAIN timeseries}] :
         /\ \A n \in DOMAIN timeseries :
                stamps[n] \in Orders(DOMAIN timeseries[n])
         /\ LET ls == lines_of(timeseries, names, stamps,
                               initial_pieces(prefix))
                failed == {k \in 1..Len(ls) : ls[k].text = Raised}
            IN IF failed = {}
               THEN /\ out' = out \o ls
                    /\ pc' = "Flushed"
               ELSE /\ out' = out \o SubSeq(ls, 1,
                                (CHOOSE k \in failed :
                                    \A j \in failed : k <= j) - 1)
                    /\ pc' = "AbortedOutput"
    /\ UNCHANGED <<prefix, report_path, output_url, remaining, timeseries,
                   processed, last, usage, category, itype>>

Next ==
    \/ Setup
    \/ \E row_list \in Rows : ReadRow(row_list)
    \/ Output

Spec == Init /\ [][Next]_vars

(***************************************************************************)
(* Classification harness: Row.usage_type and Row.instance_type applied    *)
(* to a row that holds one usage type                                      *)
(***************************************************************************)
InitClassify ==
    /\ prefix = <<>>
    /\ report_path = "file"
    /\ output_url = "stdout"
    /\ pc = "Init"
    /\ remaining = 0
    /\ timeseries = <<>>
    /\ out = <<>>
    /\ processed = <<>>
    /\ last = NoRow
    /\ outputCalls = 0
    /\ usage \in UsageStrings
    /\ category = Pending
    /\ itype = Pending

UsageType ==
    /\ category = Pending
    /\ category' = usage_type(Row(<<"lineItem/UsageType">>, <<usage>>))
    /\ UNCHANGED <<prefix, report_path, output_url, pc, remaining,
                   timeseries, out, processed, last, outputCalls, usage,
                   itype>>

InstanceType ==
    /\ itype = Pending
    /\ itype' = instance_type(Row(<<"lineItem/UsageType">>, <<usage>>))
    /\ UNCHANGED <<prefix, report_path, output_url, pc, remaining,
                   timeseries, out, processed, last, outputCalls, usage,
                   category>>

NextClassify == UsageType \/ InstanceType

SpecClassify == InitClassify /\ [][NextClassify]_vars

(***************************************************************************)
(* Properties                                                              *)
(***************************************************************************)
\* the (metric-name, timestamp) pairs that have an accumulator
Pairs(table) ==
    UNION {{<<n, t>> : t \in DOMAIN table[n]} : n \in DOMAIN table}

\* the accumulated value of a pair, 0 when it has no accumulator
Get(table, p) == IF p \in Pairs(table) THEN table[p[1]][p[2]] ELSE 0

\* a row with a value for every column, an interval of one hour, a numeric
\* cost and the line-item type Usage
ValidHourlyUsage(content) ==
    /\ DOMAIN content = {col_names[i] : i \in 1..Len(col_names)}
    /\ content["lineItem/LineItemType"] = "Usage"
    /\ Len(content["identity/TimeInterval"]) = 2
    /\ content["identity/TimeInterval"][2]
         - content["identity/TimeInterval"][1] = 3600
    /\ Len(content["lineItem/BlendedCost"]) = 1

\* the 4-character shape of a region code such as APN1 or USW2
RegionCodeShape(seg) ==
    /\ Len(seg) = 4
    /\ SubSeq(seg, 1, 2) \in {<<"U", "S">>, <<"E", "U">>, <<"A", "P">>, <<"S", "A">>}
    /\ \A i \in 1..4 : seg[i] \notin LowerCase
    /\ seg[4] \in DigitChars

\* BoxUsage:<type>, alone or behind one alphanumeric region code
IsBoxUsageString(u) ==
    \/ startswith(u, <<"B", "o", "x", "U", "s", "a", "g", "e", ":">>)
    \/ /\ Len(u) > 5
       /\ u[5] = "-"
       /\ RegionCodeShape(SubSeq(u, 1, 4))
       /\ \A i \in 1..4 : u[i] \in UpperCase \cup DigitChars
       /\ startswith(SubSeq(u, 6, Len(u)), <<"B", "o", "x", "U", "s", "a", "g", "e", ":">>)

\* the text that follows the first "BoxUsage:" of u
AfterBoxUsage(u) ==
    LET i == CHOOSE i \in 1..Len(u) :
                 /\ startswith(SubSeq(u, i, Len(u)), <<"B", "o", "x", "U", "s", "a", "g", "e", ":">>)
                 /\ \A j \in 1..(i-1) :
                        ~startswith(SubSeq(u, j, Len(u)), <<"B", "o", "x", "U", "s", "a", "g", "e", ":">>)
    IN SubSeq(u, i + 9, Len(u))

\* '<region>.ec2-instance.<instance-type>' as the claim C3 spells it
InstanceMetric(content) ==
    region(content) \o <<".">> \o <<"e", "c", "2", "-", "i", "n", "s", "t", "a", "n", "c", "e">> \o <<".">>
      \o [i \in 1..Len(AfterBoxUsage(content["lineItem/UsageType"])) |->
            IF AfterBoxUsage(content["lineItem/UsageType"])[i] = "."
            THEN "-" ELSE AfterBoxUsage(content["lineItem/UsageType"])[i]]

\* the metric names a surviving row contributes to, by the two rules
NamesOf(content) ==
    {<<"a", "l", "l", "-", "r", "e", "g", "i", "o", "n", "s", ".", "a", "l", "l", "-", "t", "y", "p", "e", "s", ".", "t", "o", "t", "a", "l", "-", "c", "o", "s", "t">>}
      \cup (IF usage_type(content) = ec2_instance
            THEN {InstanceMetric(content)} ELSE {})

RECURSIVE SumOver(_, _)
SumOver(rows, p) ==
    IF Len(rows) = 0 THEN 0
    ELSE (IF p[1] \in NamesOf(rows[1])
             /\ p[2] = rows[1]["identity/TimeInterval"][2]
          THEN rows[1]["lineItem/BlendedCost"][1] ELSE 0)
         + SumOver(Tail(rows), p)

ContributedPairs(rows) ==
    UNION {{<<n, rows[i]["identity/TimeInterval"][2]>> : n \in NamesOf(rows[i])}
             : i \in 1..Len(rows)}

\* C1: once generate_metrics has read every row, all of them well formed,
\* and has called output, the output holds exactly one line for each
\* (metric-name, end-timestamp) pair that received a contribution, with the
\* sum of the amounts of the rows that contributed to it, and no two lines
\* have the same pair.
C1_OutputIsTheSums ==
    (outputCalls = 1
       /\ (\A i \in 1..Len(processed) : ValidHourlyUsage(processed[i])))
    =>
    /\ \A k, l \in 1..Len(out) :
          (out[k].ts_id = out[l].ts_id /\ out[k].timestamp = out[l].timestamp)
             => k = l
    /\ {<<out[k].ts_id, out[k].timestamp>> : k \in 1..Len(out)}
          = ContributedPairs(processed)
    /\ \A k \in 1..Len(out) :
          out[k].value = SumOver(processed, <<out[k].ts_id, out[k].timestamp>>)

\* C2: a row whose line-item type is not exactly Usage, or whose interval is
\* not exactly 3600 seconds, leaves the aggregation table as it was.
C2_FilteredRowsLeaveTable ==
    [][(remaining' = remaining - 1
          /\ ~(last'.lit = "Usage" /\ last'.interval = "hourly"))
        => timeseries' = timeseries]_vars

\* a two-hour Usage row was read and skipped while the table held sums
C2_Witness ==
    /\ pc = "Reading"
    /\ last.lit = "Usage"
    /\ last.interval = "other"
    /\ last.cost = "number"
    /\ Pairs(timeseries) # {}

\* C3: processing a valid hourly Usage row whose usage type is BoxUsage:<type>
\* adds the row's amount to exactly two accumulators, both at the row's end
\* time: '<region>.ec2-instance.<type with - for .>', a name of three
\* dot-joined segments, and 'all-regions.all-types.total-cost'.
C3_BoxUsageTwoContributions ==
    [][(/\ Len(processed') = Len(processed) + 1
        /\ ValidHourlyUsage(processed'[Len(processed')])
        /\ IsBoxUsageString(processed'[Len(processed')]["lineItem/UsageType"]))
       =>
       LET content == processed'[Len(processed')]
           end == content["identity/TimeInterval"][2]
           amt == content["lineItem/BlendedCost"][1]
           two == {<<InstanceMetric(content), end>>,
                   <<<<"a", "l", "l", "-", "r", "e", "g", "i", "o", "n", "s", ".", "a", "l", "l", "-", "t", "y", "p", "e", "s", ".", "t", "o", "t", "a", "l", "-", "c", "o", "s", "t">>, end>>}
       IN /\ Cardinality(two) = 2
          /\ Len(split(InstanceMetric(content), ".")) = 3
          /\ Pairs(timeseries') = Pairs(timeseries) \cup two
          /\ \A p \in Pairs(timeseries') :
                Get(timeseries', p)
                  = Get(timeseries, p) + (IF p \in two THEN amt ELSE 0)
          /\ pc' = "Reading"]_vars

\* two BoxUsage rows of the same region, type and hour have been summed
C3_Witness ==
    /\ pc = "Reading"
    /\ Len(processed) = 2
    /\ processed[1] = processed[2]
    /\ ValidHourlyUsage(processed[2])
    /\ processed[2]["lineItem/UsageType"] = <<"A", "P", "N", "1", "-", "B", "o", "x", "U", "s", "a", "g", "e", ":", "c", "3", ".", "2", "x", "l", "a", "r", "g", "e">>
    /\ <<<<"u", "s", "-", "w", "e", "s", "t", "-", "2", ".", "e", "c", "2", "-", "i", "n", "s", "t", "a", "n", "c", "e", ".", "c", "3", "-", "2", "x", "l", "a", "r", "g", "e">>, 3600>> \in Pairs(timeseries)

\* C4 as stated: processing a surviving row whose usage type is unclassified
\* changes no accumulator of any metric.
C4_UnknownChangesNothing ==
    [][(/\ Len(processed') = Len(processed) + 1
        /\ usage_type(processed'[Len(processed')]) = None)
       => timeseries' = timeseries]_vars

\* C4 amended: a surviving row whose usage type is unclassified matches the
\* AllCosts rule only: processing it changes no accumulator other than that
\* of 'all-regions.all-types.total-cost' at the row's end time, and adds the
\* row's amount to that one when the amount is a number.
C4_UnknownCountsInTotalOnly ==
    [][(/\ Len(processed') = Len(processed) + 1
        /\ usage_type(processed'[Len(processed')]) = None)
       =>
       LET content == processed'[Len(processed')]
           total == <<<<"a", "l", "l", "-", "r", "e", "g", "i", "o", "n", "s", ".", "a", "l", "l", "-", "t", "y", "p", "e", "s", ".", "t", "o", "t", "a", "l", "-", "c", "o", "s", "t">>,
                      content["identity/TimeInterval"][2]>>
       IN /\ \A p \in (Pairs(timeseries) \cup Pairs(timeseries')) \ {total} :
                /\ p \in Pairs(timeseries)
                /\ p \in Pairs(timeseries')
                /\ Get(timeseries', p) = Get(timeseries, p)
          /\ total \in Pairs(timeseries')
          /\ ("lineItem/BlendedCost" \in DOMAIN content
                /\ Len(content["lineItem/BlendedCost"]) = 1)
                => (/\ Get(timeseries', total)
                         = Get(timeseries, total)
                             + content["lineItem/BlendedCost"][1]
                    /\ pc' = "Reading")]_vars

\* an unclassified row has been counted in the total and nowhere else
C4_Witness ==
    /\ pc = "Reading"
    /\ Len(processed) = 1
    /\ processed[1]["lineItem/UsageType"] = <<"R", "e", "q", "u", "e", "s", "t", "s", "-", "R", "B", "P">>
    /\ Pairs(timeseries) = {<<<<"a", "l", "l", "-", "r", "e", "g", "i", "o", "n", "s", ".", "a", "l", "l", "-", "t", "y", "p", "e", "s", ".", "t", "o", "t", "a", "l", "-", "c", "o", "s", "t">>, 7200>>}
    /\ Get(timeseries, <<<<"a", "l", "l", "-", "r", "e", "g", "i", "o", "n", "s", ".", "a", "l", "l", "-", "t", "y", "p", "e", "s", ".", "t", "o", "t", "a", "l", "-", "c", "o", "s", "t">>, 7200>>) = 850000

\* the category C5 states for a usage type
StatedCategory(u) ==
    LET segs == split(u, "-")
        rest == IF RegionCodeShape(segs[1]) THEN Tail(segs) ELSE segs
    IN IF Len(rest) > 0 /\ startswith(rest[1], <<"B", "o", "x", "U", "s", "a", "g", "e", ":">>)
       THEN <<"e", "c", "2", "-", "i", "n", "s", "t", "a", "n", "c", "e">> ELSE None

\* C5: for every usage type, Row.usage_type returns ec2-instance when the
\* first segment left after dropping at most one region code starts with
\* 'BoxUsage:', and unknown (None) otherwise.
C5_CategoryAsStated ==
    category # Pending => category = StatedCategory(usage)

\* C6: Row.usage_type and Row.instance_type return normally for every usage
\* type: the category is ec2-instance or unknown, the instance type is a
\* text or absent, and nothing is raised.
C6_ClassificationNeverRaises ==
    /\ category \in {Pending, <<"e", "c", "2", "-", "i", "n", "s", "t", "a", "n", "c", "e">>, None}
    /\ itype # Raised

\* C7: a row with a value count other than the header's column count, an
\* unparseable interval or an unparseable cost aborts the run, whatever its
\* line-item type and interval are.
C7_MalformedRowAborts ==
    (/\ last # NoRow
     /\ \/ last.len # Len(col_names)
        \/ last.interval = "unparseable"
        \/ last.cost = "unparseable")
    => pc = "AbortedRow"

\* the digits that follow the decimal point of the value field of a line
DecimalsOf(text) == split1(split(text, " ")[2], ".")[2]

\* C8: every output line is '<name> <value> <seconds>' and a newline, the
\* value with exactly 4 digits after the decimal point.
C8_FourDecimals ==
    \A k \in 1..Len(out) :
        /\ Len(split(out[k].text, " ")) = 3
        /\ out[k].text[Len(out[k].text)] = "\n"
        /\ Len(DecimalsOf(out[k].text)) = 4

\* the metric name field of a line
NameOf(text) == split(text, " ")[1]

\* C9: with the prefix unset or empty, output succeeds and each line carries
\* the ts_id itself as metric name; with a non-empty prefix the name is
\* '<prefix>.<ts_id>'.
C9_PrefixOptional ==
    outputCalls = 1 =>
       /\ pc = "Flushed"
       /\ Len(out) = Cardinality(Pairs(timeseries))
       /\ \A k \in 1..Len(out) :
             NameOf(out[k].text) =
                IF prefix \in {Unset, <<>>} THEN out[k].ts_id
                ELSE prefix \o <<".">> \o out[k].ts_id

\* C10: output is called at most once, and only when the reader has yielded
\* every row; a run that has reached Flushed has called it exactly once; no
\* line has been written while a row is still unread; a run that aborted in
\* setup or on a row has called output zero times and written no line; and
\* the run only moves forward: Init, Reading, then Flushed or an abort.
C10_OutputOnceAfterInput ==
    /\ [](/\ outputCalls \in {0, 1}
          /\ (outputCalls = 1) => (remaining = 0)
          /\ (outputCalls = 1) <=> (pc \in {"Flushed", "AbortedOutput"})
          /\ (Len(out) > 0) => (remaining = 0 /\ pc = "Flushed")
          /\ (pc \in {"AbortedSetup", "AbortedRow"})
                => (Len(out) = 0 /\ outputCalls = 0))
    /\ [][/\ (pc = "Init") => (pc' \in {"Init", "Reading", "AbortedSetup"})
          /\ (pc = "Reading") => (pc' \in {"Reading", "Flushed", "AbortedRow",
                                            "AbortedOutput"})
          /\ (pc \notin {"Init", "Reading"}) => (pc' = pc /\ out' = out)]_vars

\* a run has read two rows, summed them and written its lines
C10_Witness ==
    /\ pc = "Flushed"
    /\ outputCalls = 1
    /\ Len(processed) = 2
    /\ Len(out) >= 2
    /\ remaining = 0
====
